---- MODULE Spec2Model ----
(***************************************************************************)
(* junixsocket native bridge: the socket factory (socket.c) and the        *)
(* capability query (capabilities.c).                                      *)
(*                                                                         *)
(* Each JNI entry point is modelled as the sequence of its accesses to     *)
(* state shared between caller threads (the FileDescriptor object, the     *)
(* process's descriptor table, the runtime probes); the purely local       *)
(* statements between two such accesses belong to the step of the access   *)
(* they follow.                                                            *)
(***************************************************************************)
EXTENDS Integers, FiniteSets

\* ------------------------------------------------------------------ bounds
NumThreads == 2     \* caller threads
NumHandles == 2     \* FileDescriptor objects
MaxFd == 4          \* highest descriptor the process may hold (its limit)

Threads == 1..NumThreads
Handles == 1..NumHandles
Fds == 0..MaxFd

\* --------------------------------------------------------------- constants
\* socket.c:28-33: the portable kinds of NativeUnixSocket and the native
\* kinds of the platform (a platform where the two numberings differ).
NativeUnixSocket_SOCK_STREAM == 1
NativeUnixSocket_SOCK_DGRAM == 2
NativeUnixSocket_SOCK_SEQPACKET == 5
SOCK_STREAM == 2
SOCK_DGRAM == 1
SOCK_SEQPACKET == 6

\* Undefined kind tags, a caller's inputs.
UndefinedKinds == {7, -1}
ValidKinds ==
  {NativeUnixSocket_SOCK_STREAM, NativeUnixSocket_SOCK_DGRAM,
   NativeUnixSocket_SOCK_SEQPACKET}
KindInputs == ValidKinds \cup UndefinedKinds

\* socket.c:60: socket_errno, the error codes socket() sets.
EMFILE == 24
EAFNOSUPPORT == 97
Errnos == {EMFILE, EAFNOSUPPORT}

\* capabilities.c:27-35
CAPABILITY_PEER_CREDENTIALS == 1
CAPABILITY_ANCILLARY_MESSAGES == 2
CAPABILITY_FILE_DESCRIPTORS == 4
CAPABILITY_ABSTRACT_NAMESPACE == 8
CAPABILITY_UNIX_DATAGRAMS == 16
CAPABILITY_NATIVE_SOCKETPAIR == 32
CAPABILITY_FD_AS_REDIRECT == 64
CAPABILITY_TIPC == 128
CAPABILITY_UNIX_DOMAIN == 256

kExceptionSocketException == "SocketException"

\* ------------------------------------------------------------------- state
VARIABLES
  fdVal,         \* fdVal[h]: the native value held by FileDescriptor h
  openFds,       \* the descriptors open in the process
  created,       \* history: the descriptors socket() has returned
  nSucc,         \* history: nSucc[h], the createSocket calls on h that succeeded
  firstBound,    \* history: firstBound[h], the value the first of them recorded
  pc,            \* pc[t]: where thread t is
  fd,            \* createSocket's parameter fd (a handle; 0 outside a call)
  type,          \* createSocket's parameter type, reassigned at line 53
  handle,        \* createSocket's local handle
  callKind,      \* history: the kind the call in flight was given
  callPre,       \* history: the handle's value when the call in flight read it
  last,          \* history: the createSocket call that returned last
  build,         \* the preprocessor symbols the library was built with
  probe,         \* what the runtime probes report now
  capabilities,  \* capabilities[s]: the capability query's local, by slot
  seen,          \* history: seen[t], what the probes told the query in flight
  evals,         \* history: evals[t], the probes the query in flight evaluated
  lastCap,       \* history: the capability query that returned last
  refCap         \* history: some capability query that returned earlier,
                 \* kept where pairs of queries are compared (refCap.pairs)

sockVars == <<fdVal, openFds, created, nSucc, firstBound, fd, type, handle, callKind, callPre, last>>
capVars == <<build, probe, capabilities, seen, evals, lastCap, refCap>>
vars == <<fdVal, openFds, created, nSucc, firstBound, pc, fd, type, handle, callKind, callPre,
          last, build, probe, capabilities, seen, evals, lastCap, refCap>>

\* The values a handle has before any socket was bound to it: a new
\* FileDescriptor holds -1, FileDescriptor.in holds 0.
UnsetValues == {-1, 0}
StdFds == {0, 1, 2}
NoFd == -1

\* -------------------------------------------------------------- exceptions
NoException == [cls |-> "none", msg |-> "", errnum |-> 0, fd |-> 0]

_throwException(cls, msg) == [cls |-> cls, msg |-> msg, errnum |-> 0, fd |-> 0]

_throwErrnumException(errnum, fdObj) ==
  [cls |-> kExceptionSocketException, msg |-> "errno", errnum |-> errnum, fd |-> fdObj]

\* The specification's error taxonomy (section 7), by the cause an exception
\* names.
ErrorKind(exc) ==
  CASE exc.cls = "none" -> "None"
    [] exc.msg = "Illegal type" -> "IllegalArgument"
    [] exc.msg = "Already created" -> "AlreadyInitialized"
    [] exc.msg = "errno" -> "OSError"
    [] OTHER -> "Unknown"

\* --------------------------------------------------------- socket.c: 26-38
sockTypeToNativeDefaulting(t) ==
  CASE t = NativeUnixSocket_SOCK_DGRAM ->
         [ret |-> SOCK_DGRAM, exc |-> NoException]
    [] t = NativeUnixSocket_SOCK_SEQPACKET ->
         [ret |-> SOCK_SEQPACKET, exc |-> NoException]
    [] OTHER ->
         [ret |-> SOCK_STREAM, exc |-> NoException]

sockTypeToNative(t) ==
  CASE t = NativeUnixSocket_SOCK_STREAM ->
         [ret |-> SOCK_STREAM, exc |-> NoException]
    [] t = NativeUnixSocket_SOCK_DGRAM ->
         [ret |-> SOCK_DGRAM, exc |-> NoException]
    [] t = NativeUnixSocket_SOCK_SEQPACKET ->
         [ret |-> SOCK_SEQPACKET, exc |-> NoException]
    [] OTHER ->
         [ret |-> -1, exc |-> _throwException(kExceptionSocketException, "Illegal type")]

\* A caller maps one kind: the result is left in type, the exception (or
\* none) in the record of the last call, which names no handle.
MapInputs == (-3)..9

sockTypeToNative_Call(t, k) ==
  /\ pc[t] \in {"idle", "map_done"}
  /\ LET m == sockTypeToNative(k)
     IN /\ type' = [type EXCEPT ![t] = m.ret]
        /\ callKind' = [callKind EXCEPT ![t] = k]
        /\ last' = [fd |-> 0, kind |-> k, pre |-> -1, post |-> -1,
                    exc |-> m.exc, alloc |-> -1]
  /\ pc' = [pc EXCEPT ![t] = "map_done"]
  /\ UNCHANGED <<fdVal, openFds, created, nSucc, firstBound, fd, handle, callPre>>
  /\ UNCHANGED <<build, probe, capabilities, seen, evals, lastCap, refCap>>

\* ------------------------------------------------------ the file descriptor
_getFD(h) == fdVal[h]

_initFD(h, v) == [fdVal EXCEPT ![h] = v]

\* --------------------------------------------------------------- the system
\* socket(PF_UNIX, type, 0): the lowest descriptor not in use, or -1 with an
\* error code; EMFILE when the process holds every descriptor it may. A call
\* that succeeds leaves errno as it was: whatever an earlier call left there.
LowestFree(open) == CHOOSE f \in Fds \ open : \A g \in Fds \ open : f <= g

socket(open) ==
  (IF Fds \ open = {}
     THEN {[ret |-> -1, errno |-> EMFILE]}
     ELSE {[ret |-> LowestFree(open), errno |-> e] : e \in {0} \cup Errnos})
  \cup {[ret |-> -1, errno |-> EAFNOSUPPORT]}

\* ---------------------------------------------------------------- the calls
NoCall == [fd |-> 0, kind |-> 0, pre |-> NoFd, post |-> NoFd,
           exc |-> NoException, alloc |-> NoFd]

\* The record of a call that returns now.
Returned(h, k, pre, post, exc, alloc) ==
  [fd |-> h, kind |-> k, pre |-> pre, post |-> post, exc |-> exc, alloc |-> alloc]

\* socket.c:47
AlreadyInitializedInverted(v) == v < 0
AlreadyInitialized(v) == v > 0

\* socket.c:47-56: the exception createSocket raises before it asks for a
\* socket, given the handle's value and the mapped kind.
EnterCheckKindFirst(hv, m) ==
  IF m.ret = -1
    THEN m.exc
    ELSE IF AlreadyInitialized(hv)
      THEN _throwException(kExceptionSocketException, "Already created")
      ELSE NoException
EnterCheckNoSentinelStop(hv, m) ==
  IF AlreadyInitialized(hv)
    THEN _throwException(kExceptionSocketException, "Already created")
    ELSE NoException
EnterCheck(hv, m) ==
  IF AlreadyInitialized(hv)
    THEN _throwException(kExceptionSocketException, "Already created")
    ELSE IF m.ret = -1 THEN m.exc ELSE NoException

\* socket.c:59
SocketFailedOnlyNegative(v) == v < 0
SocketFailed(v) == v <= 0

\* No createSocket call on handle h is in flight.
Quiet(h) == \A u \in Threads : pc[u] \in {"cs_socket", "cs_initFD"} => fd[u] # h

\* socket.c:44-56: read the handle, refuse a bound one, map the kind.
createSocket_Enter(t, h, k) ==
  /\ pc[t] = "idle"
  /\ LET hv == _getFD(h)
         m == sockTypeToNative(k)
         e == EnterCheck(hv, m)
     IN IF e # NoException
          THEN /\ last' = Returned(h, k, hv, fdVal[h], e, NoFd)
               /\ UNCHANGED <<pc, fd, type, handle, callKind, callPre>>
          ELSE /\ pc' = [pc EXCEPT ![t] = "cs_socket"]
               /\ fd' = [fd EXCEPT ![t] = h]
               /\ type' = [type EXCEPT ![t] = m.ret]
               /\ handle' = [handle EXCEPT ![t] = hv]
               /\ callKind' = [callKind EXCEPT ![t] = k]
               /\ callPre' = [callPre EXCEPT ![t] = hv]
               /\ UNCHANGED last
  /\ UNCHANGED <<fdVal, openFds, created, nSucc, firstBound>>
  /\ UNCHANGED capVars

\* socket.c:58-62: ask the system for the socket, report its refusal.
createSocket_Socket(t) ==
  /\ pc[t] = "cs_socket"
  /\ \E r \in socket(openFds) :
       /\ openFds' = IF r.ret >= 0 THEN openFds \cup {r.ret} ELSE openFds
       /\ created' = IF r.ret >= 0 THEN created \cup {r.ret} ELSE created
       /\ IF SocketFailed(r.ret)
            THEN /\ last' = Returned(fd[t], callKind[t], callPre[t], fdVal[fd[t]],
                              _throwErrnumException(r.errno, fd[t]), r.ret)
                 /\ pc' = [pc EXCEPT ![t] = "idle"]
                 /\ fd' = [fd EXCEPT ![t] = 0]
                 /\ type' = [type EXCEPT ![t] = 0]
                 /\ handle' = [handle EXCEPT ![t] = NoFd]
                 /\ callKind' = [callKind EXCEPT ![t] = 0]
                 /\ callPre' = [callPre EXCEPT ![t] = NoFd]
            ELSE /\ pc' = [pc EXCEPT ![t] = "cs_initFD"]
                 /\ handle' = [handle EXCEPT ![t] = r.ret]
                 /\ UNCHANGED <<last, fd, type, callKind, callPre>>
  /\ UNCHANGED <<fdVal, nSucc, firstBound>>
  /\ UNCHANGED capVars

\* socket.c:64: record the descriptor in the handle and return.
RecordHandleInFirst(t) == _initFD(CHOOSE h \in Handles : \A g \in Handles : h <= g, handle[t])
RecordHandle(t) == _initFD(fd[t], handle[t])

createSocket_InitFD(t) ==
  /\ pc[t] = "cs_initFD"
  /\ fdVal' = RecordHandle(t)
  /\ nSucc' = [nSucc EXCEPT ![fd[t]] = @ + 1]
  /\ firstBound' = IF nSucc[fd[t]] = 0
                     THEN [firstBound EXCEPT ![fd[t]] = handle[t]]
                     ELSE firstBound
  /\ last' = Returned(fd[t], callKind[t], callPre[t], fdVal'[fd[t]], NoException, handle[t])
  /\ pc' = [pc EXCEPT ![t] = "idle"]
  /\ fd' = [fd EXCEPT ![t] = 0]
  /\ type' = [type EXCEPT ![t] = 0]
  /\ handle' = [handle EXCEPT ![t] = NoFd]
  /\ callKind' = [callKind EXCEPT ![t] = 0]
  /\ callPre' = [callPre EXCEPT ![t] = NoFd]
  /\ UNCHANGED <<openFds, created>>
  /\ UNCHANGED capVars

\* ------------------------------------------------------------ capabilities
\* The preprocessor symbols capabilities.c tests. peercred: one of the
\* symbols of line 58-59 is defined; os: which of __linux__, _WIN32, _OS400
\* is defined, if any.
Builds ==
  [peercred : BOOLEAN, ancillary : BOOLEAN, os : {"linux", "win32", "os400", "other"}]

DefaultBuild == [peercred |-> TRUE, ancillary |-> TRUE, os |-> "linux"]

ProbeNames == {"unix", "redirect", "tipc"}
Probes == [ProbeNames -> BOOLEAN]
NoProbes == [p \in ProbeNames |-> FALSE]
NoEvals == [p \in ProbeNames |-> 0]

\* The runtime probes of init.h.
supportsUNIX == probe["unix"]
supportsCastAsRedirect == probe["redirect"]
supportsTIPC == probe["tipc"]

HasBit(mask, bit) == (mask \div bit) % 2 = 1

\* mask |= bit, for a single bit
BitOr(mask, bit) == IF HasBit(mask, bit) THEN mask ELSE mask + bit

\* capabilities.c:58-65
WithPeerCredentialsAnyPlatform(c) ==
  IF build.peercred THEN BitOr(c, CAPABILITY_PEER_CREDENTIALS) ELSE c
WithPeerCredentials(c) ==
  IF build.peercred /\ build.os # "os400"
    THEN BitOr(c, CAPABILITY_PEER_CREDENTIALS)
    ELSE c

\* capabilities.c:67-70
WithAncillaryMessagesOnly(c) ==
  IF build.ancillary THEN BitOr(c, CAPABILITY_ANCILLARY_MESSAGES) ELSE c
WithAncillary(c) ==
  IF build.ancillary
    THEN BitOr(BitOr(c, CAPABILITY_ANCILLARY_MESSAGES), CAPABILITY_FILE_DESCRIPTORS)
    ELSE c

\* capabilities.c:72-77
WithAbstractNamespace(c) ==
  IF build.os = "linux" THEN BitOr(c, CAPABILITY_ABSTRACT_NAMESPACE) ELSE c

\* capabilities.c:79-85
WithDatagramsAndSocketPair(c) ==
  IF build.os # "win32"
    THEN BitOr(BitOr(c, CAPABILITY_UNIX_DATAGRAMS), CAPABILITY_NATIVE_SOCKETPAIR)
    ELSE c

\* capabilities.c:56-85: the body of if(supportsUNIX())
UnixBranch(c) ==
  WithDatagramsAndSocketPair(
    WithAbstractNamespace(
      WithAncillary(
        WithPeerCredentials(BitOr(c, CAPABILITY_UNIX_DOMAIN)))))

\* capabilities.c:55-87
IfSupportsUNIXHoisted(c, unix) == IF unix THEN UnixBranch(c) ELSE WithAncillary(c)
IfSupportsUNIX(c, unix) == IF unix THEN UnixBranch(c) ELSE c

\* capabilities.c:89-91
IfSupportsCastAsRedirectDropped(c, redirect) == c
IfSupportsCastAsRedirect(c, redirect) ==
  IF redirect THEN BitOr(c, CAPABILITY_FD_AS_REDIRECT) ELSE c

\* capabilities.c:93-95
IfSupportsTIPC(c, tipc) == IF tipc THEN BitOr(c, CAPABILITY_TIPC) ELSE c

\* capabilities.c:53: int capabilities is a local of the call, each caller
\* thread has its own; its initial value is 0.
CapSlotShared(t) == 1
CapSlot(t) == t

CapStartKept(t) == IF lastCap.done THEN lastCap.mask ELSE 0
CapStart(t) == 0

NoQuery ==
  [done |-> FALSE, mask |-> 0, seen |-> NoProbes, evals |-> NoEvals, overlap |-> FALSE]

NoRef(pairs) == [done |-> FALSE, mask |-> 0, seen |-> NoProbes, pairs |-> pairs]

\* capabilities.c:49-87: the local starts at 0; the supportsUNIX() branch.
capabilities_EnterOpeningSocket(t) ==
  /\ pc[t] = "idle"
  /\ LET u == supportsUNIX
     IN /\ capabilities' =
             [capabilities EXCEPT ![CapSlot(t)] = IfSupportsUNIX(CapStart(t), u)]
        /\ seen' = [seen EXCEPT ![t] = [NoProbes EXCEPT !["unix"] = u]]
        /\ evals' = [evals EXCEPT ![t] = [NoEvals EXCEPT !["unix"] = 1]]
  /\ pc' = [pc EXCEPT ![t] = "cap_redirect"]
  /\ openFds' = IF Fds \ openFds = {} THEN openFds
                 ELSE openFds \cup {LowestFree(openFds)}
  /\ UNCHANGED <<build, probe, lastCap, refCap>>
  /\ UNCHANGED <<fdVal, created, nSucc, firstBound, fd, type, handle,
                 callKind, callPre, last>>
capabilities_Enter(t) ==
  /\ pc[t] = "idle"
  /\ LET u == supportsUNIX
     IN /\ capabilities' =
             [capabilities EXCEPT ![CapSlot(t)] = IfSupportsUNIX(CapStart(t), u)]
        /\ seen' = [seen EXCEPT ![t] = [NoProbes EXCEPT !["unix"] = u]]
        /\ evals' = [evals EXCEPT ![t] = [NoEvals EXCEPT !["unix"] = 1]]
  /\ pc' = [pc EXCEPT ![t] = "cap_redirect"]
  /\ UNCHANGED <<build, probe, lastCap, refCap>>
  /\ UNCHANGED sockVars

\* capabilities.c:89-91
capabilities_Redirect(t) ==
  /\ pc[t] = "cap_redirect"
  /\ LET r == supportsCastAsRedirect
     IN /\ capabilities' =
             [capabilities EXCEPT
                ![CapSlot(t)] = IfSupportsCastAsRedirect(capabilities[CapSlot(t)], r)]
        /\ seen' = [seen EXCEPT ![t]["redirect"] = r]
        /\ evals' = [evals EXCEPT ![t]["redirect"] = @ + 1]
  /\ pc' = [pc EXCEPT ![t] = "cap_tipc"]
  /\ UNCHANGED <<build, probe, lastCap, refCap>>
  /\ UNCHANGED sockVars

\* capabilities.c:93-97: the supportsTIPC() branch and the return, where the
\* local ends. The record notes whether another query was in flight then.
\* The observer keeps the result that returned before this one, or the one
\* it kept already.
capabilities_Return(t) ==
  /\ pc[t] = "cap_tipc"
  /\ LET p == supportsTIPC
         c == IfSupportsTIPC(capabilities[CapSlot(t)], p)
     IN /\ lastCap' = [done |-> TRUE, mask |-> c,
                       seen |-> [seen[t] EXCEPT !["tipc"] = p],
                       evals |-> [evals[t] EXCEPT !["tipc"] = @ + 1],
                       overlap |-> \E u \in Threads \ {t} :
                                     pc[u] \in {"cap_redirect", "cap_tipc"}]
        /\ capabilities' = [capabilities EXCEPT ![CapSlot(t)] = 0]
  /\ refCap' \in
       IF refCap.pairs
         THEN {refCap, [done |-> lastCap.done, mask |-> lastCap.mask,
                        seen |-> lastCap.seen, pairs |-> TRUE]}
         ELSE {refCap}
  /\ seen' = [seen EXCEPT ![t] = NoProbes]
  /\ evals' = [evals EXCEPT ![t] = NoEvals]
  /\ pc' = [pc EXCEPT ![t] = "idle"]
  /\ UNCHANGED <<build, probe>>
  /\ UNCHANGED sockVars

\* The environment: what one of the probes would report changes.
ProbeChange ==
  /\ \E p \in ProbeNames : probe' = [probe EXCEPT ![p] = ~@]
  /\ UNCHANGED <<build, capabilities, seen, evals, lastCap, refCap, pc>>
  /\ UNCHANGED sockVars

\* ---------------------------------------------------------- specifications
InitThreads ==
  /\ pc = [t \in Threads |-> "idle"]
  /\ fd = [t \in Threads |-> 0]
  /\ type = [t \in Threads |-> 0]
  /\ handle = [t \in Threads |-> NoFd]
  /\ callKind = [t \in Threads |-> 0]
  /\ callPre = [t \in Threads |-> NoFd]
  /\ capabilities = [t \in Threads |-> 0]
  /\ seen = [t \in Threads |-> NoProbes]
  /\ evals = [t \in Threads |-> NoEvals]
  /\ last = NoCall
  /\ lastCap = NoQuery
  /\ created = {}
  /\ nSucc = [h \in Handles |-> 0]
  /\ firstBound = [h \in Handles |-> NoFd]

\* The socket factory: every handle unset, the standard descriptors open or
\* descriptor 0 closed.
Init ==
  /\ InitThreads
  /\ fdVal \in [Handles -> UnsetValues]
  /\ openFds \in {StdFds, StdFds \ {0}}
  /\ build = DefaultBuild
  /\ probe = NoProbes
  /\ refCap = NoRef(FALSE)

\* The capability query: any build, any probe results.
InitCap ==
  /\ InitThreads
  /\ fdVal = [h \in Handles |-> -1]
  /\ openFds = StdFds
  /\ build \in Builds
  /\ probe \in Probes
  /\ refCap = NoRef(FALSE)

\* Caller threads call createSocket on any handle at any time.
Next ==
  \/ \E t \in Threads, h \in Handles, k \in KindInputs : createSocket_Enter(t, h, k)
  \/ \E t \in Threads : createSocket_Socket(t)
  \/ \E t \in Threads : createSocket_InitFD(t)

Spec == Init /\ [][Next]_vars

\* The calls on one handle follow each other; calls on distinct handles
\* overlap.
NextSeq ==
  \/ \E t \in Threads, h \in Handles, k \in KindInputs :
       Quiet(h) /\ createSocket_Enter(t, h, k)
  \/ \E t \in Threads : createSocket_Socket(t)
  \/ \E t \in Threads : createSocket_InitFD(t)

SpecSeq == Init /\ [][NextSeq]_vars

\* Caller threads query the capabilities at any time, while the probes'
\* answers change.
NextCap ==
  \/ \E t \in Threads : capabilities_Enter(t)
  \/ \E t \in Threads : capabilities_Redirect(t)
  \/ \E t \in Threads : capabilities_Return(t)
  \/ ProbeChange

SpecCap == InitCap /\ [][NextCap]_vars

\* Capability queries and createSocket calls side by side, in a process that
\* has one descriptor left; pairs of queries are compared.
MixKinds == {NativeUnixSocket_SOCK_STREAM, 7}

InitMix ==
  /\ InitThreads
  /\ fdVal = [h \in Handles |-> -1]
  /\ openFds = Fds \ {MaxFd}
  /\ build = DefaultBuild
  /\ probe \in Probes
  /\ refCap = NoRef(TRUE)

NextMix ==
  \/ \E t \in Threads : capabilities_Enter(t)
  \/ \E t \in Threads : capabilities_Redirect(t)
  \/ \E t \in Threads : capabilities_Return(t)
  \/ ProbeChange
  \/ \E t \in Threads, h \in Handles, k \in MixKinds : createSocket_Enter(t, h, k)
  \/ \E t \in Threads : createSocket_Socket(t)
  \/ \E t \in Threads : createSocket_InitFD(t)

SpecMix == InitMix /\ [][NextMix]_vars

\* The kind mapping alone, over a range of integers.
NextMap == \E t \in Threads, k \in MapInputs : sockTypeToNative_Call(t, k)

SpecMap == Init /\ [][NextMap]_vars

\* ------------------------------------------------------------------ claims
\* A createSocket call has returned; last describes it.
SomeCall == last.fd # 0

Recorded(f) == \E h \in Handles : fdVal[h] = f
InFlight(f) == \E t \in Threads : pc[t] = "cs_initFD" /\ handle[t] = f

\* C1: a createSocket call on a handle that is already bound (native value
\* > 0), with any kind, valid or not, fails with AlreadyInitialized
\* ("Already created"), and the handle's value after the call is its value
\* before the call.
C1_BoundHandleRefused ==
  (SomeCall /\ last.pre > 0) =>
    /\ ErrorKind(last.exc) = "AlreadyInitialized"
    /\ last.exc.msg = "Already created"
    /\ last.post = last.pre

C1_Witness ==
  /\ SomeCall
  /\ last.pre > 0
  /\ last.kind \notin ValidKinds
  /\ ErrorKind(last.exc) = "AlreadyInitialized"
  /\ last.post = last.pre

\* C2, as claimed: a createSocket call with a kind outside {Stream, Datagram,
\* SequencedPacket} on any handle, unset or bound, fails with IllegalArgument
\* ("Illegal type"), the handle unchanged.
C2_IllegalTypeOnAnyHandle ==
  (SomeCall /\ last.kind \notin ValidKinds) =>
    /\ ErrorKind(last.exc) = "IllegalArgument"
    /\ last.exc.msg = "Illegal type"
    /\ last.post = last.pre

\* C2, amended: a createSocket call with a kind outside the three valid ones
\* fails with IllegalArgument ("Illegal type") when the handle is unset and
\* with AlreadyInitialized when the handle is bound; the handle is unchanged
\* in both cases.
C2_IllegalTypeOnUnsetHandle ==
  (SomeCall /\ last.kind \notin ValidKinds) =>
    /\ last.post = last.pre
    /\ last.alloc = NoFd
    /\ IF last.pre > 0
         THEN ErrorKind(last.exc) = "AlreadyInitialized"
         ELSE ErrorKind(last.exc) = "IllegalArgument" /\ last.exc.msg = "Illegal type"

C2_Witness ==
  /\ SomeCall
  /\ last.kind = 7
  /\ last.pre <= 0
  /\ ErrorKind(last.exc) = "IllegalArgument"
  /\ fdVal[last.fd] = last.pre

\* C3: a createSocket call with a valid kind on an unset handle either
\* succeeds, with no error and the handle bound to the value > 0 the system
\* returned, or fails with OSError, the handle still unset; there is no
\* third outcome.
C3_SuccessOrOSError ==
  (SomeCall /\ last.pre <= 0 /\ last.kind \in ValidKinds) =>
    \/ /\ last.exc = NoException
       /\ last.post > 0
       /\ last.post = last.alloc
       /\ last.alloc \in created
    \/ /\ ErrorKind(last.exc) = "OSError"
       /\ last.post = last.pre

C3_Witness ==
  /\ SomeCall
  /\ last.pre <= 0
  /\ last.kind = NativeUnixSocket_SOCK_SEQPACKET
  /\ last.exc = NoException
  /\ last.post > 0
  /\ fdVal[last.fd] = last.post

\* C4: of the createSocket calls threads make concurrently on one unset
\* handle at most one succeeds, and no socket the calls created is left
\* unrecorded in the handle.
C4_AtMostOneSucceeds ==
  /\ \A h \in Handles : nSucc[h] <= 1
  /\ \A f \in created : f > 0 => (Recorded(f) \/ InFlight(f))

\* C5: in every mask the capability query returns, whatever the probes and
\* the build, none of the bits PeerCredentials, AncillaryMessages,
\* FileDescriptorPassing, AbstractNamespace, UnixDatagrams, NativeSocketPair
\* is set unless the UnixDomainSockets bit is set.
DependentBits ==
  {CAPABILITY_PEER_CREDENTIALS, CAPABILITY_ANCILLARY_MESSAGES,
   CAPABILITY_FILE_DESCRIPTORS, CAPABILITY_ABSTRACT_NAMESPACE,
   CAPABILITY_UNIX_DATAGRAMS, CAPABILITY_NATIVE_SOCKETPAIR}

C5_PrerequisiteBit ==
  (lastCap.done /\ ~HasBit(lastCap.mask, CAPABILITY_UNIX_DOMAIN)) =>
    \A b \in DependentBits : ~HasBit(lastCap.mask, b)

C5_Witness ==
  /\ lastCap.done
  /\ ~HasBit(lastCap.mask, CAPABILITY_UNIX_DOMAIN)
  /\ build = DefaultBuild
  /\ HasBit(lastCap.mask, CAPABILITY_TIPC)
  /\ \A b \in DependentBits : ~HasBit(lastCap.mask, b)

AllBits ==
  DependentBits \cup {CAPABILITY_FD_AS_REDIRECT, CAPABILITY_TIPC, CAPABILITY_UNIX_DOMAIN}

BitsOf(mask) == {b \in AllBits : HasBit(mask, b)}

CompleteBits(s) ==
  {b \in AllBits :
     \/ b = CAPABILITY_UNIX_DOMAIN /\ s["unix"]
     \/ b = CAPABILITY_PEER_CREDENTIALS
          /\ s["unix"] /\ build.peercred /\ build.os # "os400"
     \/ b \in {CAPABILITY_ANCILLARY_MESSAGES, CAPABILITY_FILE_DESCRIPTORS}
          /\ s["unix"] /\ build.ancillary
     \/ b = CAPABILITY_ABSTRACT_NAMESPACE /\ s["unix"] /\ build.os = "linux"
     \/ b \in {CAPABILITY_UNIX_DATAGRAMS, CAPABILITY_NATIVE_SOCKETPAIR}
          /\ s["unix"] /\ build.os # "win32"
     \/ b = CAPABILITY_FD_AS_REDIRECT /\ s["redirect"]
     \/ b = CAPABILITY_TIPC /\ s["tipc"]}

C8_NoPartialMask ==
  lastCap.done =>
    /\ BitsOf(lastCap.mask) = CompleteBits(lastCap.seen)
    /\ lastCap.mask < 2 * CAPABILITY_UNIX_DOMAIN

C8_Witness ==
  /\ lastCap.done
  /\ lastCap.overlap
  /\ build = DefaultBuild
  /\ BitsOf(lastCap.mask) = AllBits
  /\ \E t \in Threads : pc[t] = "cap_tipc" /\ ~seen[t]["unix"]

\* C9: of the createSocket calls that follow each other on one handle at
\* most one succeeds; from then on the handle keeps the value that call
\* recorded, and every later call, with any kind, fails with
\* AlreadyInitialized.
C9_OneSuccessPerHandle ==
  \A h \in Handles :
    /\ nSucc[h] <= 1
    /\ nSucc[h] = 1 => (fdVal[h] > 0 /\ fdVal[h] = firstBound[h])
    /\ (SomeCall /\ last.fd = h /\ nSucc[h] = 1 /\ last.pre > 0) =>
         (ErrorKind(last.exc) = "AlreadyInitialized" /\ last.pre = firstBound[h])
    /\ (SomeCall /\ last.fd = h /\ nSucc[h] = 1 /\ last.pre <= 0) =>
         (last.exc = NoException /\ last.post = firstBound[h])

C9_Witness ==
  /\ SomeCall
  /\ nSucc[last.fd] = 1
  /\ last.pre = firstBound[last.fd]
  /\ last.kind \in ValidKinds
  /\ ErrorKind(last.exc) = "AlreadyInitialized"
  /\ fdVal[last.fd] = firstBound[last.fd]

\* C10: a createSocket call that reports an error leaves the handle's value
\* as it was before the call, and leaves no descriptor open that the system
\* allocated during the call.
C10_NoPartialState ==
  (SomeCall /\ last.exc # NoException) =>
    /\ last.post = last.pre
    /\ last.alloc # NoFd => last.alloc \notin openFds

\* C11: createSocket asks the system for a socket only after it found the
\* handle unset and mapped the kind to a native kind: every request carries
\* the native kind of the kind given, never the sentinel -1, and a call that
\* found the handle bound or the kind undefined asks for none.
NativeKinds == {SOCK_STREAM, SOCK_DGRAM, SOCK_SEQPACKET}

C11_RequestOnlyAfterChecks ==
  /\ \A t \in Threads :
       pc[t] \in {"cs_socket", "cs_initFD"} =>
         /\ type[t] # -1
         /\ type[t] \in NativeKinds
         /\ callKind[t] \in ValidKinds
         /\ callPre[t] <= 0
         /\ pc[t] = "cs_socket" => fdVal[fd[t]] <= 0
  /\ (SomeCall /\ (last.pre > 0 \/ last.kind \notin ValidKinds)) =>
       (last.alloc = NoFd /\ last.exc.msg \in {"Already created", "Illegal type"})
  /\ created \subseteq openFds
  /\ \A f \in openFds \ created : f \in StdFds

C11_Witness ==
  /\ SomeCall
  /\ last.kind \notin ValidKinds
  /\ last.pre <= 0
  /\ last.alloc = NoFd
  /\ \E t \in Threads :
       /\ pc[t] = "cs_initFD"
       /\ type[t] = SOCK_SEQPACKET
       /\ callKind[t] = NativeUnixSocket_SOCK_SEQPACKET
       /\ handle[t] \in created

\* C12: every createSocket call ends either with no error and the handle
\* bound, or with one error whose kind names its cause: IllegalArgument for
\* an undefined kind, AlreadyInitialized for a bound handle, OSError for a
\* refusal of the system, carrying the error code the system gave and the
\* handle.
C12_ErrorNamesCause ==
  SomeCall =>
    \/ /\ last.exc = NoException
       /\ last.post > 0
    \/ /\ ErrorKind(last.exc) = "IllegalArgument"
       /\ last.kind \notin ValidKinds
       /\ last.pre <= 0
    \/ /\ ErrorKind(last.exc) = "AlreadyInitialized"
       /\ last.pre > 0
    \/ /\ ErrorKind(last.exc) = "OSError"
       /\ last.alloc = NoFd
       /\ last.exc.errnum \in Errnos
       /\ last.exc.fd = last.fd

\* C13: sockTypeToNative maps Stream, Datagram and SequencedPacket to the
\* native constant of each and raises nothing; for every other integer it
\* raises "Illegal type" and returns -1; no input is given a default kind
\* and no valid kind the sentinel.
C13_KindMapping ==
  /\ \A t \in Threads :
       pc[t] = "map_done" =>
         /\ callKind[t] = NativeUnixSocket_SOCK_STREAM => type[t] = SOCK_STREAM
         /\ callKind[t] = NativeUnixSocket_SOCK_DGRAM => type[t] = SOCK_DGRAM
         /\ callKind[t] = NativeUnixSocket_SOCK_SEQPACKET => type[t] = SOCK_SEQPACKET
         /\ callKind[t] \notin ValidKinds => type[t] = -1
         /\ type[t] = -1 => callKind[t] \notin ValidKinds
  /\ (\E t \in Threads : pc[t] = "map_done") =>
       IF last.kind \in ValidKinds
         THEN last.exc = NoException
         ELSE /\ last.exc.msg = "Illegal type"
              /\ last.exc.cls = kExceptionSocketException

C13_Witness ==
  /\ \E t \in Threads :
       pc[t] = "map_done" /\ callKind[t] = NativeUnixSocket_SOCK_DGRAM /\ type[t] = SOCK_DGRAM
  /\ \E t \in Threads :
       pc[t] = "map_done" /\ callKind[t] = 0 /\ type[t] = -1
  /\ last.kind = 0
  /\ last.exc.msg = "Illegal type"

\* C14: the AncillaryMessages bit is set in every mask of a build with
\* ancillary support, whether or not UNIX-domain sockets are supported, and
\* the FileDescriptorPassing bit is set exactly when AncillaryMessages is.
C14_AncillaryWithoutPrerequisite ==
  lastCap.done =>
    /\ build.ancillary => HasBit(lastCap.mask, CAPABILITY_ANCILLARY_MESSAGES)
    /\ HasBit(lastCap.mask, CAPABILITY_FILE_DESCRIPTORS)
         <=> HasBit(lastCap.mask, CAPABILITY_ANCILLARY_MESSAGES)

\* C14 as the code has it: the AncillaryMessages bit is set exactly when
\* the build has ancillary support and the query found UNIX-domain sockets
\* supported; the FileDescriptorPassing bit exactly when AncillaryMessages.
C14_AncillaryUnderPrerequisite ==
  lastCap.done =>
    /\ HasBit(lastCap.mask, CAPABILITY_ANCILLARY_MESSAGES)
         <=> (build.ancillary /\ lastCap.seen["unix"])
    /\ HasBit(lastCap.mask, CAPABILITY_FILE_DESCRIPTORS)
         <=> HasBit(lastCap.mask, CAPABILITY_ANCILLARY_MESSAGES)

C14_Witness ==
  /\ lastCap.done
  /\ build.ancillary
  /\ ~lastCap.seen["unix"]
  /\ ~HasBit(lastCap.mask, CAPABILITY_ANCILLARY_MESSAGES)
  /\ ~HasBit(lastCap.mask, CAPABILITY_FILE_DESCRIPTORS)
  /\ refCap.pairs = FALSE

\* C15: the DescriptorAsStreamRedirect bit and the TIPC bit are each set
\* exactly when the query's own probe for it reported true, whatever the
\* other probe and the UNIX-domain probe reported.
C15_IndependentBits ==
  lastCap.done =>
    /\ HasBit(lastCap.mask, CAPABILITY_FD_AS_REDIRECT) <=> lastCap.seen["redirect"]
    /\ HasBit(lastCap.mask, CAPABILITY_TIPC) <=> lastCap.seen["tipc"]

C15_Witness ==
  /\ lastCap.done
  /\ lastCap.seen["redirect"]
  /\ ~lastCap.seen["tipc"]
  /\ ~lastCap.seen["unix"]
  /\ lastCap.mask = CAPABILITY_FD_AS_REDIRECT

\* C16: the PeerCredentials bit is set exactly when the query found
\* UNIX-domain sockets supported, the build exposes a peer-credential
\* mechanism, and the platform is not OS400.
C16_PeerCredentials ==
  lastCap.done =>
    (HasBit(lastCap.mask, CAPABILITY_PEER_CREDENTIALS)
       <=> (lastCap.seen["unix"] /\ build.peercred /\ build.os # "os400"))

C16_Witness ==
  /\ lastCap.done
  /\ lastCap.seen["unix"]
  /\ build.peercred
  /\ build.os = "os400"
  /\ HasBit(lastCap.mask, CAPABILITY_UNIX_DOMAIN)
  /\ ~HasBit(lastCap.mask, CAPABILITY_PEER_CREDENTIALS)

\* What a createSocket call does when no other call runs: the record r of
\* a call is one of these outcomes, decided by the value the call read from
\* its handle, the kind it was given and the answer of the system.
AloneOutcome(r) ==
  IF r.pre > 0
    THEN r.exc.msg = "Already created" /\ r.post = r.pre /\ r.alloc = NoFd
    ELSE IF r.kind \notin ValidKinds
      THEN r.exc.msg = "Illegal type" /\ r.post = r.pre /\ r.alloc = NoFd
      ELSE \/ r.exc = NoException /\ r.post = r.alloc /\ r.alloc > 0
           \/ ErrorKind(r.exc) = "OSError" /\ r.post = r.pre /\ r.exc.fd = r.fd

\* C17: createSocket calls that overlap on distinct handles do not
\* interfere: a handle's value changes only by the success of a call on
\* that handle, to the descriptor that call obtained; each call returns an
\* outcome it could have returned running alone; two handles never hold the
\* same descriptor.
C17_DistinctHandlesIndependent ==
  [][/\ \A h \in Handles :
          fdVal'[h] # fdVal[h] =>
            \E t \in Threads :
              /\ pc[t] = "cs_initFD"
              /\ pc'[t] = "idle"
              /\ fd[t] = h
              /\ fdVal'[h] = handle[t]
              /\ \A g \in Handles \ {h} : fdVal'[g] = fdVal[g]
     /\ last' # last => AloneOutcome(last')
     /\ \A h \in Handles, g \in Handles :
          (h # g /\ fdVal'[h] > 0) => fdVal'[h] # fdVal'[g]
    ]_vars

C17_Witness ==
  /\ SomeCall
  /\ last.exc = NoException
  /\ fdVal[last.fd] = last.alloc
  /\ \E t \in Threads :
       /\ pc[t] = "cs_initFD"
       /\ fd[t] # last.fd
       /\ handle[t] > 0
       /\ handle[t] < last.alloc
       /\ fdVal[fd[t]] <= 0

\* The steps of a capability query and the steps of a createSocket call.
CapabilityStep ==
  \E t \in Threads :
    \/ pc[t] = "idle" /\ pc'[t] = "cap_redirect"
    \/ pc[t] \in {"cap_redirect", "cap_tipc"} /\ pc'[t] # pc[t]

CreateSocketStep ==
  \/ last' # last
  \/ \E t \in Threads :
       \/ pc[t] = "idle" /\ pc'[t] = "cs_socket"
       \/ pc[t] \in {"cs_socket", "cs_initFD"} /\ pc'[t] # pc[t]

\* C18: a capability query changes no handle and allocates no descriptor;
\* a createSocket call changes nothing a capability query reads or returns.
C18_Frame ==
  [][/\ CapabilityStep =>
          UNCHANGED <<fdVal, openFds, created, nSucc, firstBound, last>>
     /\ CreateSocketStep =>
          UNCHANGED <<build, probe, capabilities, seen, evals, lastCap, refCap>>
    ]_vars

C18_Witness ==
  /\ lastCap.done
  /\ lastCap.seen["unix"]
  /\ SomeCall
  /\ last.exc = NoException
  /\ fdVal[last.fd] = last.alloc
  /\ openFds = Fds
  /\ \E t \in Threads : pc[t] = "cap_tipc"
  /\ refCap.done
  /\ refCap.mask = lastCap.mask

\* C19: createSocket never records a value <= 0 in a handle: a handle
\* holds the unset value it started with, or a descriptor > 0 that socket()
\* returned; a handle holding 0 or a negative value is taken as unset, and
\* descriptor 0 from the system is taken as a failed creation.
C19_OnlyPositiveRecorded ==
  /\ \A h \in Handles :
       IF nSucc[h] = 0
         THEN fdVal[h] \in UnsetValues
         ELSE fdVal[h] > 0 /\ fdVal[h] \in created
  /\ \A t \in Threads : pc[t] = "cs_initFD" => handle[t] > 0
  /\ SomeCall =>
       /\ last.pre <= 0 => ErrorKind(last.exc) # "AlreadyInitialized"
       /\ last.alloc = 0 => ErrorKind(last.exc) = "OSError"
       /\ last.exc = NoException => last.alloc > 0

C19_Witness ==
  /\ SomeCall
  /\ last.pre = 0
  /\ last.alloc = 0
  /\ ErrorKind(last.exc) = "OSError"
  /\ fdVal[last.fd] = 0
  /\ 0 \in openFds
  /\ 0 \in created

\* The mask of the build for the probe results s, as a sum of bit values.
MaskFor(s) ==
  (IF s["unix"]
     THEN CAPABILITY_UNIX_DOMAIN
          + (IF build.peercred /\ build.os # "os400"
               THEN CAPABILITY_PEER_CREDENTIALS ELSE 0)
          + (IF build.ancillary
               THEN CAPABILITY_ANCILLARY_MESSAGES + CAPABILITY_FILE_DESCRIPTORS ELSE 0)
          + (IF build.os = "linux" THEN CAPABILITY_ABSTRACT_NAMESPACE ELSE 0)
          + (IF build.os # "win32"
               THEN CAPABILITY_UNIX_DATAGRAMS + CAPABILITY_NATIVE_SOCKETPAIR ELSE 0)
     ELSE 0)
  + (IF s["redirect"] THEN CAPABILITY_FD_AS_REDIRECT ELSE 0)
  + (IF s["tipc"] THEN CAPABILITY_TIPC ELSE 0)

\* C20: for the build, the mask a query returns is a function of the three
\* probe results that query saw and of nothing else: whatever queries and
\* createSocket calls came before, and whatever the handles and the
\* descriptor table hold, a query that saw s returns the mask for s.
C20_MaskIsFunctionOfProbes ==
  \A s \in Probes :
    /\ (lastCap.done /\ lastCap.seen = s) => lastCap.mask = MaskFor(s)
    /\ (refCap.done /\ refCap.seen = s) => refCap.mask = MaskFor(s)

C20_Witness ==
  /\ lastCap.done
  /\ refCap.done
  /\ lastCap.seen = refCap.seen
  /\ lastCap.seen["unix"]
  /\ lastCap.seen["tipc"]
  /\ lastCap.mask = refCap.mask
  /\ SomeCall
  /\ last.exc = NoException
  /\ fdVal[last.fd] > 0

====
